---------------------------- MODULE Spec2Model ----------------------------
(***************************************************************************)
(* SCALE decoder stream (scale::ScaleDecoderStream).                       *)
(*                                                                         *)
(* The stream is a cursor (current_index_) over a borrowed byte span       *)
(* (span_).  Every operator>> of the header is modelled as a function from *)
(* (destination value, span, index) to a result record                     *)
(*     [idx, err, val, alloc]                                              *)
(* where idx is the cursor after the call, err is "OK" or the DecodeError  *)
(* that was raised, val is the value the caller's destination holds after  *)
(* the call (also when it raised), and alloc counts the container elements *)
(* obtained through resize().                                              *)
(*                                                                         *)
(* Values: bool is BOOLEAN, integers are Nat, std::optional is <<>> or     *)
(* <<x>>, boost::variant is <<which, x>> (which zero-based), pair, tuple,  *)
(* array, vector and static collections are sequences, a map is a function *)
(* from keys to mapped values.                                             *)
(***************************************************************************)
EXTENDS Integers, Sequences, FiniteSets, TLC

VARIABLES span, current_index, last, encoded

vars == <<span, current_index, last, encoded>>

(***************************************************************************)
(* Bounds of the model.                                                    *)
(***************************************************************************)
\* longest byte span fed to the decoder
MaxLen == 4
\* number of container elements the allocator can service in one resize()
AllocLimit == 100
\* most pairs on the wire of a map input
MaxPairs == 2
\* most elements of an encoded sequence
MaxItems == 2
\* trailing bytes after an encoding in the round-trip inputs
MaxTail == 1

\* byte values the spans are drawn from: the discriminants and compact mode
\* bits 0..3, and the compact length 2 (byte 8)
ByteVals == {0, 1, 2, 3, 8}

RECURSIVE SeqsUpTo(_, _)
SeqsUpTo(S, n) ==
    IF n = 0 THEN {<<>>}
    ELSE LET shorter == SeqsUpTo(S, n - 1)
         IN  shorter \cup {Append(s, b) : s \in {t \in shorter : Len(t) = n - 1}, b \in S}

(***************************************************************************)
(* Shapes (the template arguments the operators are instantiated with).    *)
(***************************************************************************)
Shape(kind, count, args) == [k |-> kind, n |-> count, a |-> args]

Bool       == Shape("bool", 0, <<>>)
U8         == Shape("u8", 0, <<>>)
U16        == Shape("u16", 0, <<>>)
Compact    == Shape("compact", 0, <<>>)
Opt(T)     == Shape("optional", 0, <<T>>)
Variant(Ts) == Shape("variant", 0, Ts)
Pair(F, S) == Shape("pair", 0, <<F, S>>)
Tuple(Ts)  == Shape("tuple", 0, Ts)
Array(T, size) == Shape("array", size, <<T>>)
Static(T, size) == Shape("static", size, <<T>>)
Vec(T)     == Shape("vector", 0, <<T>>)
BitVec     == Shape("vector_bool", 0, <<>>)
Map(K, V)  == Shape("map", 0, <<K, V>>)

\* a default-constructed value of shape T
RECURSIVE Default(_)
Default(T) ==
    CASE T.k = "bool" -> FALSE
      [] T.k \in {"u8", "u16", "compact"} -> 0
      [] T.k \in {"optional", "vector", "vector_bool"} -> <<>>
      [] T.k = "map" -> [key \in {} |-> 0]
      [] T.k = "variant" -> <<0, Default(T.a[1])>>
      [] T.k \in {"pair", "tuple"} -> [j \in 1..Len(T.a) |-> Default(T.a[j])]
      [] T.k \in {"array", "static"} -> [j \in 1..T.n |-> Default(T.a[1])]

\* a value of shape T that differs from the default: what a caller's
\* destination may hold before the decode
RECURSIVE Prior(_)
Prior(T) ==
    CASE T.k = "bool" -> TRUE
      [] T.k \in {"u8", "compact"} -> 7
      [] T.k = "u16" -> 513
      [] T.k = "optional" -> <<Prior(T.a[1])>>
      [] T.k = "vector" -> <<Prior(T.a[1])>>
      [] T.k = "vector_bool" -> <<TRUE>>
      [] T.k = "map" -> [key \in {Prior(T.a[1])} |-> Prior(T.a[2])]
      [] T.k = "variant" -> <<Len(T.a) - 1, Prior(T.a[Len(T.a)])>>
      [] T.k \in {"pair", "tuple"} -> [j \in 1..Len(T.a) |-> Prior(T.a[j])]
      [] T.k \in {"array", "static"} -> [j \in 1..T.n |-> Prior(T.a[1])]

(***************************************************************************)
(* Results of a call.                                                      *)
(***************************************************************************)
Ok(i, v, al)      == [idx |-> i, err |-> "OK", val |-> v, alloc |-> al]
Raise(e, i, v, al) == [idx |-> i, err |-> e, val |-> v, alloc |-> al]

\* the result x of a call, named in what follows it
With(x, F(_)) == F(x)

(***************************************************************************)
(* Stream primitives (scale_decoder_stream.cpp, fixed_width_integer.hpp).  *)
(***************************************************************************)
\* bool hasMore(uint64_t n) const
hasMore(s, i, n) == Len(s) - i >= n

\* nextByte with the cursor left where it was
nextByte_NoAdvance(v, s, i) ==
    IF ~hasMore(s, i, 1) THEN Raise("NOT_ENOUGH_DATA", i, v, 0)
    ELSE Ok(i, s[i + 1], 0)

\* uint8_t nextByte(): v is the destination the byte is assigned to
nextByte(v, s, i) ==
    IF ~hasMore(s, i, 1) THEN Raise("NOT_ENOUGH_DATA", i, v, 0)
    ELSE Ok(i + 1, s[i + 1], 0)

\* bool decodeBool()
decodeBool(v, s, i) ==
    With(nextByte(0, s, i), LAMBDA b :
        IF b.err # "OK" THEN Raise(b.err, b.idx, v, 0)
        ELSE IF b.val = 0 THEN Ok(b.idx, FALSE, 0)
        ELSE IF b.val = 1 THEN Ok(b.idx, TRUE, 0)
        ELSE Raise("UNEXPECTED_VALUE", b.idx, v, 0))

\* std::optional<bool> decodeOptionalBool()
decodeOptionalBool(v, s, i) ==
    With(nextByte(0, s, i), LAMBDA b :
        IF b.err # "OK" THEN Raise(b.err, b.idx, v, 0)
        ELSE IF b.val = 0 THEN Ok(b.idx, <<>>, 0)
        ELSE IF b.val = 1 THEN Ok(b.idx, <<TRUE>>, 0)
        ELSE IF b.val = 2 THEN Ok(b.idx, <<FALSE>>, 0)
        ELSE Raise("UNEXPECTED_VALUE", b.idx, v, 0))

\* the little-endian value of the w bytes after index i
RECURSIVE LittleEndian(_, _, _)
LittleEndian(s, i, w) ==
    IF w = 0 THEN 0 ELSE s[i + 1] + 256 * LittleEndian(s, i + 1, w - 1)

\* detail::decodeInteger<I>: w bytes, least significant first
decodeInteger(w, v, s, i) ==
    IF ~hasMore(s, i, w) THEN Raise("NOT_ENOUGH_DATA", i, v, 0)
    ELSE Ok(i + w, LittleEndian(s, i, w), 0)

\* the bytes that follow the first byte of a compact integer
compactTail(first) ==
    CASE first % 4 = 0 -> 0
      [] first % 4 = 1 -> 1
      [] first % 4 = 2 -> 3
      [] first % 4 = 3 -> (first \div 4) + 4

\* operator>>(CompactInteger &): the mode is in the low two bits of the
\* first byte; in modes 0 to 2 the value is the little-endian number of all
\* the bytes shifted right by two, which is the first byte shifted right by
\* two plus 64 times the number of the bytes after it
decodeCompact(v, s, i) ==
    With(nextByte(0, s, i), LAMBDA first :
        IF first.err # "OK" THEN Raise(first.err, first.idx, v, 0)
        ELSE With(compactTail(first.val), LAMBDA more :
            IF ~hasMore(s, first.idx, more) THEN Raise("NOT_ENOUGH_DATA", first.idx, v, 0)
            ELSE IF first.val % 4 = 3
                 THEN Ok(first.idx + more, LittleEndian(s, first.idx, more), 0)
                 ELSE Ok(first.idx + more,
                         (first.val \div 4) + 64 * LittleEndian(s, first.idx, more), 0)))

(***************************************************************************)
(* The operators of the header.  The shapes are stratified the way the     *)
(* instantiations nest: integral shapes; optionals and pairs of integral   *)
(* shapes (the element shapes); tuples, variants, arrays and containers of *)
(* element shapes.  DecodeElement is overload resolution of  *this >> v    *)
(* for a destination v of an element shape.                                *)
(***************************************************************************)
\* the integral operator reading a byte without asking whether one is left
DecodeIntegral_Unchecked(T, v, s, i) ==
    IF T.k = "bool" THEN decodeBool(v, s, i)
    ELSE IF T.k = "u8" THEN Ok(i + 1, IF hasMore(s, i, 1) THEN s[i + 1] ELSE 0, 0)
    ELSE decodeInteger(2, v, s, i)

\* operator>>(T &v) for integral T: bool, one byte, any other width
DecodeIntegral(T, v, s, i) ==
    IF T.k = "bool" THEN decodeBool(v, s, i)
    ELSE IF T.k = "u8" THEN nextByte(v, s, i)
    ELSE decodeInteger(2, v, s, i)

\* the pair operator decoding second before first
DecodePair_SecondFirst(T, p, s, i) ==
    With(DecodeIntegral(T.a[2], p[2], s, i), LAMBDA g :
        IF g.err # "OK" THEN Raise(g.err, g.idx, <<p[1], g.val>>, 0)
        ELSE With(DecodeIntegral(T.a[1], p[1], s, g.idx), LAMBDA f :
            [f EXCEPT !.val = <<f.val, g.val>>]))

\* operator>>(std::pair<F, S> &p): first, then second, in place
DecodePair(T, p, s, i) ==
    With(DecodeIntegral(T.a[1], p[1], s, i), LAMBDA f :
        IF f.err # "OK" THEN Raise(f.err, f.idx, <<f.val, p[2]>>, 0)
        ELSE With(DecodeIntegral(T.a[2], p[2], s, f.idx), LAMBDA g :
            [g EXCEPT !.val = <<f.val, g.val>>]))

\* the optional operator without the special case of bool
DecodeOptional_NoBoolCase(T, v, s, i) ==
    With(decodeBool(FALSE, s, i), LAMBDA has_value :
        IF has_value.err # "OK" THEN Raise(has_value.err, has_value.idx, v, 0)
        ELSE IF ~has_value.val THEN Ok(has_value.idx, <<>>, 0)
        ELSE With(DecodeIntegral(T.a[1], Default(T.a[1]), s, has_value.idx), LAMBDA r :
            [r EXCEPT !.val = <<r.val>>]))

\* the optional operator leaving the destination alone when no value follows
DecodeOptional_NoReset(T, v, s, i) ==
    IF T.a[1].k = "bool" THEN decodeOptionalBool(v, s, i)
    ELSE With(decodeBool(FALSE, s, i), LAMBDA has_value :
        IF has_value.err # "OK" THEN Raise(has_value.err, has_value.idx, v, 0)
        ELSE IF ~has_value.val THEN Ok(has_value.idx, v, 0)
        ELSE With(DecodeIntegral(T.a[1], Default(T.a[1]), s, has_value.idx), LAMBDA r :
            [r EXCEPT !.val = <<r.val>>]))

\* operator>>(std::optional<T> &v)
DecodeOptional(T, v, s, i) ==
    IF T.a[1].k = "bool" THEN decodeOptionalBool(v, s, i)
    ELSE With(decodeBool(FALSE, s, i), LAMBDA has_value :
        IF has_value.err # "OK" THEN Raise(has_value.err, has_value.idx, v, 0)
        ELSE IF ~has_value.val THEN Ok(has_value.idx, <<>>, 0)
        ELSE With(DecodeIntegral(T.a[1], Default(T.a[1]), s, has_value.idx), LAMBDA r :
            [r EXCEPT !.val = <<r.val>>]))

DecodeElement(T, v, s, i) ==
    CASE T.k \in {"bool", "u8", "u16"} -> DecodeIntegral(T, v, s, i)
      [] T.k = "optional" -> DecodeOptional(T, v, s, i)
      [] T.k = "pair" -> DecodePair(T, v, s, i)

\* for (k = from; k <= to; ++k) *this >> c[k];   the elements of c are
\* decoded in place
RECURSIVE DecodeEach(_, _, _, _, _, _)
DecodeEach(T, c, s, i, from, to) ==
    IF from > to THEN Ok(i, c, 0)
    ELSE With(DecodeElement(T, c[from], s, i), LAMBDA r :
        IF r.err # "OK" THEN Raise(r.err, r.idx, [c EXCEPT ![from] = r.val], 0)
        ELSE DecodeEach(T, [c EXCEPT ![from] = r.val], s, r.idx, from + 1, to))

\* decodeElementOfTuple<I>: element I (zero-based), then the elements after
RECURSIVE decodeElementOfTuple(_, _, _, _, _)
decodeElementOfTuple(I, Ts, v, s, i) ==
    With(DecodeElement(Ts[I + 1], v[I + 1], s, i), LAMBDA r :
        IF r.err # "OK" THEN Raise(r.err, r.idx, [v EXCEPT ![I + 1] = r.val], 0)
        ELSE IF Len(Ts) > I + 1
             THEN decodeElementOfTuple(I + 1, Ts, [v EXCEPT ![I + 1] = r.val], s, r.idx)
             ELSE Ok(r.idx, [v EXCEPT ![I + 1] = r.val], 0))

\* operator>>(std::tuple<T...> &v)
DecodeTuple(T, v, s, i) ==
    IF Len(T.a) > 0 THEN decodeElementOfTuple(0, T.a, v, s, i)
    ELSE Ok(i, v, 0)

\* tryDecodeAsOneOfVariant<I>(v, ti): the alternative whose position is ti
\* is decoded into a local and assigned to v
RECURSIVE tryDecodeAsOneOfVariant(_, _, _, _, _, _)
tryDecodeAsOneOfVariant(I, Ts, v, s, i, ti) ==
    IF I = ti
    THEN With(DecodeElement(Ts[I + 1], Default(Ts[I + 1]), s, i), LAMBDA r :
        IF r.err # "OK" THEN Raise(r.err, r.idx, v, 0)
        ELSE Ok(r.idx, <<I, r.val>>, 0))
    ELSE IF Len(Ts) > I + 1
         THEN tryDecodeAsOneOfVariant(I + 1, Ts, v, s, i, ti)
         ELSE Ok(i, v, 0)

\* the variant operator with the index compared by > instead of >=
DecodeVariant_IndexOffByOne(T, v, s, i) ==
    With(nextByte(0, s, i), LAMBDA type_index :
        IF type_index.err # "OK" THEN Raise(type_index.err, type_index.idx, v, 0)
        ELSE IF type_index.val > Len(T.a)
             THEN Raise("WRONG_TYPE_INDEX", type_index.idx, v, 0)
             ELSE tryDecodeAsOneOfVariant(0, T.a, v, s, type_index.idx, type_index.val))

\* operator>>(boost::variant<Ts...> &v)
DecodeVariant(T, v, s, i) ==
    With(nextByte(0, s, i), LAMBDA type_index :
        IF type_index.err # "OK" THEN Raise(type_index.err, type_index.idx, v, 0)
        ELSE IF type_index.val >= Len(T.a)
             THEN Raise("WRONG_TYPE_INDEX", type_index.idx, v, 0)
             ELSE tryDecodeAsOneOfVariant(0, T.a, v, s, type_index.idx, type_index.val))

\* decodeVectorLike resizing and filling the destination itself
decodeVectorLike_InPlace(T, v, s, i) ==
    With(decodeCompact(0, s, i), LAMBDA size :
        IF size.err # "OK" THEN Raise(size.err, size.idx, v, 0)
        ELSE IF size.val > AllocLimit THEN Raise("TOO_MANY_ITEMS", size.idx, v, 0)
        ELSE With(DecodeEach(T.a[1], [j \in 1..size.val |-> Default(T.a[1])],
                             s, size.idx, 1, size.val), LAMBDA r :
            [r EXCEPT !.alloc = size.val]))

\* decodeVectorLike(C &v): the container is resized to the declared length
\* (std::bad_alloc when the allocator cannot service it) and its elements
\* are decoded in place; v is assigned at the end
decodeVectorLike(T, v, s, i) ==
    With(decodeCompact(0, s, i), LAMBDA size :
        IF size.err # "OK" THEN Raise(size.err, size.idx, v, 0)
        ELSE IF size.val > AllocLimit THEN Raise("TOO_MANY_ITEMS", size.idx, v, 0)
        ELSE With(DecodeEach(T.a[1], [j \in 1..size.val |-> Default(T.a[1])],
                             s, size.idx, 1, size.val), LAMBDA r :
            IF r.err # "OK" THEN Raise(r.err, r.idx, v, size.val)
            ELSE Ok(r.idx, r.val, size.val)))

\* operator>>(C &c) for a container with is_static_collection
DecodeCollection(T, c, s, i) ==
    IF T.k = "static"
    THEN With(DecodeEach(T.a[1], Default(T), s, i, 1, T.n), LAMBDA r :
        IF r.err # "OK" THEN Raise(r.err, r.idx, c, 0)
        ELSE r)
    ELSE decodeVectorLike(T, c, s, i)

\* the loop of operator>>(std::vector<bool> &v): el is the local the
\* elements are decoded into
RECURSIVE DecodeBits(_, _, _, _, _, _)
DecodeBits(container, el, s, i, k, item_count) ==
    IF k >= item_count THEN Ok(i, container, 0)
    ELSE With(DecodeIntegral(Bool, el, s, i), LAMBDA r :
        IF r.err # "OK" THEN Raise(r.err, r.idx, container, 0)
        ELSE DecodeBits(Append(container, r.val), r.val, s, r.idx, k + 1, item_count))

\* operator>>(std::vector<bool> &v)
DecodeVectorBool(T, v, s, i) ==
    With(decodeCompact(0, s, i), LAMBDA size :
        IF size.err # "OK" THEN Raise(size.err, size.idx, v, 0)
        ELSE With(DecodeBits(<<>>, FALSE, s, size.idx, 0, size.val), LAMBDA r :
            IF r.err # "OK" THEN Raise(r.err, r.idx, v, 0)
            ELSE r))

\* a default-constructed map
EmptyMap == [key \in {} |-> 0]

\* container.emplace(pair): the key is inserted when the container does not
\* hold it yet
emplace(container, pair) ==
    IF pair[1] \in DOMAIN container THEN container
    ELSE [key \in DOMAIN container \cup {pair[1]} |->
             IF key \in DOMAIN container THEN container[key] ELSE pair[2]]

\* the loop of the map operator: pair is the local every item is decoded
\* into
RECURSIVE DecodePairs(_, _, _, _, _, _, _)
DecodePairs(T, container, pair, s, i, k, item_count) ==
    IF k >= item_count THEN Ok(i, container, 0)
    ELSE With(DecodePair(Pair(T.a[1], T.a[2]), pair, s, i), LAMBDA r :
        IF r.err # "OK" THEN Raise(r.err, r.idx, container, 0)
        ELSE DecodePairs(T, emplace(container, r.val), r.val, s, r.idx, k + 1, item_count))

\* operator>>(C &c) for a map-like container
DecodeMap(T, c, s, i) ==
    With(decodeCompact(0, s, i), LAMBDA size :
        IF size.err # "OK" THEN Raise(size.err, size.idx, c, 0)
        ELSE With(DecodePairs(T, EmptyMap, Default(Pair(T.a[1], T.a[2])), s, size.idx, 0, size.val),
                  LAMBDA r :
            IF r.err # "OK" THEN Raise(r.err, r.idx, c, 0)
            ELSE r))

\* the array operator stopping one element short
DecodeArray_OneShort(T, a, s, i) == DecodeEach(T.a[1], a, s, i, 1, T.n - 1)

\* operator>>(std::array<T, size> &a): the elements of a are decoded in place
DecodeArray(T, a, s, i) == DecodeEach(T.a[1], a, s, i, 1, T.n)

(***************************************************************************)
(* The decoder as a state machine: a span is handed to the constructor and *)
(* the caller then applies the operations in any order.  last records the  *)
(* most recent call: the operation, the shape, the cursor and destination  *)
(* before it, and the destination, error and allocation after it.          *)
(***************************************************************************)
IntegralShapes   == {Bool, U8, U16}
OptionalShapes   == {Opt(Bool), Opt(U8), Opt(U16)}
VariantShapes    == {Variant(<<U8, U16, Bool>>)}
PairShapes       == {Pair(U8, Bool)}
TupleShapes      == {Tuple(<<Bool, U16>>)}
ArrayShapes      == {Array(U8, 2), Array(U16, 2), Array(Opt(U8), 2)}
CollectionShapes == {Static(U8, 2)}
VectorShapes     == {Vec(U8), Vec(U16)}
MapShapes        == {Map(U8, U8)}

Call(op, T, before, r) ==
    [op |-> op, type |-> T, pre_index |-> current_index, pre_dst |-> before,
     dst |-> r.val, err |-> r.err, alloc |-> r.alloc]

\* ScaleDecoderStream(gsl::span<const uint8_t> span)
Init ==
    /\ span \in SeqsUpTo(ByteVals, MaxLen)
    /\ current_index = 0
    /\ last = Call("construct", U8, 0, Ok(0, 0, 0))
    /\ encoded = <<>>

\* uint8_t nextByte()
NextByte ==
    \E r \in {nextByte(0, span, current_index)} :
        /\ current_index' = r.idx
        /\ last' = Call("nextByte", U8, 0, r)
        /\ UNCHANGED <<span, encoded>>

\* bool hasMore(uint64_t n) const
HasMore ==
    \E n \in 0..(MaxLen + 1) :
        /\ last' = Call("hasMore", U8, n, Ok(current_index, hasMore(span, current_index, n), 0))
        /\ UNCHANGED <<span, current_index, encoded>>

\* stream >> v for bool, uint8_t, uint16_t; the destination holds Prior(T)
ReadIntegral ==
    \E T \in IntegralShapes :
        \E r \in {DecodeIntegral(T, Prior(T), span, current_index)} :
            /\ current_index' = r.idx
            /\ last' = Call("integral", T, Prior(T), r)
            /\ UNCHANGED <<span, encoded>>

\* stream >> v for std::optional<T>; the destination holds Prior(T)
ReadOptional ==
    \E T \in OptionalShapes :
        \E r \in {DecodeOptional(T, Prior(T), span, current_index)} :
            /\ current_index' = r.idx
            /\ last' = Call("optional", T, Prior(T), r)
            /\ UNCHANGED <<span, encoded>>

\* stream >> v for boost::variant<Ts...>; the destination holds Prior(T)
ReadVariant ==
    \E T \in VariantShapes :
        \E r \in {DecodeVariant(T, Prior(T), span, current_index)} :
            /\ current_index' = r.idx
            /\ last' = Call("variant", T, Prior(T), r)
            /\ UNCHANGED <<span, encoded>>

\* stream >> v for std::pair<F, S>; the destination holds Prior(T)
ReadPair ==
    \E T \in PairShapes :
        \E r \in {DecodePair(T, Prior(T), span, current_index)} :
            /\ current_index' = r.idx
            /\ last' = Call("pair", T, Prior(T), r)
            /\ UNCHANGED <<span, encoded>>

\* stream >> v for std::tuple<T...>; the destination holds Prior(T)
ReadTuple ==
    \E T \in TupleShapes :
        \E r \in {DecodeTuple(T, Prior(T), span, current_index)} :
            /\ current_index' = r.idx
            /\ last' = Call("tuple", T, Prior(T), r)
            /\ UNCHANGED <<span, encoded>>

\* stream >> v for std::array<T, size>; the destination holds Prior(T)
ReadArray ==
    \E T \in ArrayShapes :
        \E r \in {DecodeArray(T, Prior(T), span, current_index)} :
            /\ current_index' = r.idx
            /\ last' = Call("array", T, Prior(T), r)
            /\ UNCHANGED <<span, encoded>>

\* stream >> v for a container with is_static_collection; the destination holds Prior(T)
ReadCollection ==
    \E T \in CollectionShapes :
        \E r \in {DecodeCollection(T, Prior(T), span, current_index)} :
            /\ current_index' = r.idx
            /\ last' = Call("static", T, Prior(T), r)
            /\ UNCHANGED <<span, encoded>>

\* stream >> v for std::vector<T>, std::deque<T>; the destination holds Prior(T)
ReadVector ==
    \E T \in VectorShapes :
        \E r \in {decodeVectorLike(T, Prior(T), span, current_index)} :
            /\ current_index' = r.idx
            /\ last' = Call("vector", T, Prior(T), r)
            /\ UNCHANGED <<span, encoded>>

\* stream >> v for std::vector<bool>; the destination holds Prior(T)
ReadVectorBool ==
    \E T \in {BitVec} :
        \E r \in {DecodeVectorBool(T, Prior(T), span, current_index)} :
            /\ current_index' = r.idx
            /\ last' = Call("vector_bool", T, Prior(T), r)
            /\ UNCHANGED <<span, encoded>>

\* stream >> v for a map-like container; the destination holds Prior(T)
ReadMap ==
    \E T \in MapShapes :
        \E r \in {DecodeMap(T, Prior(T), span, current_index)} :
            /\ current_index' = r.idx
            /\ last' = Call("map", T, Prior(T), r)
            /\ UNCHANGED <<span, encoded>>

Next ==
    \/ NextByte
    \/ HasMore
    \/ ReadIntegral
    \/ ReadOptional
    \/ ReadVariant
    \/ ReadPair
    \/ ReadTuple
    \/ ReadArray
    \/ ReadCollection
    \/ ReadVector
    \/ ReadVectorBool
    \/ ReadMap

Spec == Init /\ [][Next]_vars

(***************************************************************************)
(* The encoder (ScaleEncoderStream), the dual of the decoder: the          *)
(* canonical encoding of a value of each shape.                            *)
(***************************************************************************)
\* the w bytes of n, least significant first
RECURSIVE BytesLE(_, _)
BytesLE(n, w) ==
    IF w = 0 THEN <<>> ELSE <<n % 256>> \o BytesLE(n \div 256, w - 1)

\* the number of bytes n needs
RECURSIVE ByteCount(_)
ByteCount(n) == IF n < 256 THEN 1 ELSE 1 + ByteCount(n \div 256)

\* the smallest mode that fits n; the low two bits of the first byte are the
\* mode
EncodeCompact(n) ==
    IF n < 64 THEN <<4 * n>>
    ELSE IF n < 16384 THEN <<4 * (n % 64) + 1>> \o BytesLE(n \div 64, 1)
    ELSE IF n < 1073741824 THEN <<4 * (n % 64) + 2>> \o BytesLE(n \div 64, 3)
    ELSE <<4 * (ByteCount(n) - 4) + 3>> \o BytesLE(n, ByteCount(n))

\* the keys of a map in the order the container iterates them
RECURSIVE SortedKeys(_)
SortedKeys(K) ==
    IF K = {} THEN <<>>
    ELSE With(CHOOSE k \in K : \A o \in K : k <= o, LAMBDA least :
        <<least>> \o SortedKeys(K \ {least}))

RECURSIVE Encode(_, _)
RECURSIVE EncodeAll(_, _, _)
\* the encodings of vs[k], vs[k+1], ... one after the other; Ts[k], or
\* Ts[1] when all have one shape, is the shape of vs[k]
EncodeAll(Ts, vs, k) ==
    IF k > Len(vs) THEN <<>>
    ELSE Encode(IF Len(Ts) = 1 THEN Ts[1] ELSE Ts[k], vs[k]) \o EncodeAll(Ts, vs, k + 1)

Encode(T, v) ==
    CASE T.k = "bool" -> IF v THEN <<1>> ELSE <<0>>
      [] T.k = "u8" -> <<v>>
      [] T.k = "u16" -> BytesLE(v, 2)
      [] T.k = "compact" -> EncodeCompact(v)
      [] T.k = "optional" ->
            IF T.a[1].k = "bool"
            THEN (IF v = <<>> THEN <<0>> ELSE IF v[1] THEN <<1>> ELSE <<2>>)
            ELSE (IF v = <<>> THEN <<0>> ELSE <<1>> \o EncodeAll(T.a, v, 1))
      [] T.k = "variant" -> <<v[1]>> \o EncodeAll(<<T.a[v[1] + 1]>>, <<v[2]>>, 1)
      [] T.k \in {"pair", "tuple", "array", "static"} -> EncodeAll(T.a, v, 1)
      [] T.k = "vector" -> EncodeCompact(Len(v)) \o EncodeAll(T.a, v, 1)
      [] T.k = "vector_bool" -> EncodeCompact(Len(v)) \o EncodeAll(<<Bool>>, v, 1)
      [] T.k = "map" ->
            With(SortedKeys(DOMAIN v), LAMBDA keys :
                EncodeCompact(Len(keys))
                \o EncodeAll(<<Pair(T.a[1], T.a[2])>>, [j \in 1..Len(keys) |-> <<keys[j], v[keys[j]]>>], 1))

(***************************************************************************)
(* Round trip: the span is the encoding of a value, followed by bytes of   *)
(* whatever comes next in the stream, and the value is decoded from it.    *)
(***************************************************************************)
\* *this >> v for a destination v of shape T
DecodeAny(T, v, s, i) ==
    CASE T.k \in {"bool", "u8", "u16"} -> DecodeIntegral(T, v, s, i)
      [] T.k = "compact" -> decodeCompact(v, s, i)
      [] T.k = "optional" -> DecodeOptional(T, v, s, i)
      [] T.k = "pair" -> DecodePair(T, v, s, i)
      [] T.k = "variant" -> DecodeVariant(T, v, s, i)
      [] T.k = "tuple" -> DecodeTuple(T, v, s, i)
      [] T.k = "array" -> DecodeArray(T, v, s, i)
      [] T.k = "static" -> DecodeCollection(T, v, s, i)
      [] T.k = "vector" -> decodeVectorLike(T, v, s, i)
      [] T.k = "vector_bool" -> DecodeVectorBool(T, v, s, i)
      [] T.k = "map" -> DecodeMap(T, v, s, i)

\* the values of the integral shapes the inputs are built from
BoolValues == {FALSE, TRUE}
U8Values   == {0, 1, 255}
U16Values  == {0, 258, 65535}

\* compact integers at the edges of the four modes
CompactValues == {0, 1, 63, 64, 16383, 16384, 1073741823, 1073741824}

IntegralValues(T) ==
    CASE T.k = "bool" -> BoolValues
      [] T.k = "u8" -> U8Values
      [] T.k = "u16" -> U16Values

ElementValues(T) ==
    CASE T.k \in {"bool", "u8", "u16"} -> IntegralValues(T)
      [] T.k = "optional" -> {<<>>} \cup {<<x>> : x \in IntegralValues(T.a[1])}
      [] T.k = "pair" -> IntegralValues(T.a[1]) \X IntegralValues(T.a[2])

Values(T) ==
    CASE T.k \in {"bool", "u8", "u16", "optional", "pair"} -> ElementValues(T)
      [] T.k = "compact" -> CompactValues
      [] T.k = "variant" ->
            UNION {{<<I, x>> : x \in ElementValues(T.a[I + 1])} : I \in 0..(Len(T.a) - 1)}
      [] T.k = "tuple" -> ElementValues(T.a[1]) \X ElementValues(T.a[2])
      [] T.k \in {"array", "static"} -> [1..T.n -> ElementValues(T.a[1])]
      [] T.k = "vector" ->
            SeqsUpTo(ElementValues(T.a[1]), MaxItems)
      [] T.k = "vector_bool" -> SeqsUpTo(BoolValues, MaxItems)
      [] T.k = "map" ->
            UNION {[K -> ElementValues(T.a[2])] : K \in SUBSET ElementValues(T.a[1])}

RoundTripShapes ==
    {Compact} \cup IntegralShapes \cup OptionalShapes \cup VariantShapes \cup PairShapes \cup TupleShapes
    \cup ArrayShapes \cup CollectionShapes \cup VectorShapes \cup {BitVec} \cup MapShapes

\* the stream is constructed over the encoding of v, of shape T
RoundTripInit ==
    \E T \in RoundTripShapes : \E v \in Values(T) : \E tail \in SeqsUpTo({1}, MaxTail) :
        /\ span = Encode(T, v) \o tail
        /\ current_index = 0
        /\ last = Call("construct", U8, 0, Ok(0, 0, 0))
        /\ encoded = <<T, v>>

\* stream >> v for the shape that was encoded
ReadEncoded ==
    /\ last.op = "construct"
    /\ \E r \in {DecodeAny(encoded[1], Prior(encoded[1]), span, current_index)} :
            /\ current_index' = r.idx
            /\ last' = Call("decode", encoded[1], Prior(encoded[1]), r)
            /\ UNCHANGED <<span, encoded>>

RoundTripSpec == RoundTripInit /\ [][ReadEncoded]_vars

(***************************************************************************)
(* Map inputs: a compact length and that many (key, value) pairs, with     *)
(* keys that may repeat.                                                   *)
(***************************************************************************)
WireKeys   == {0, 1}
WireValues == {0, 1, 2}

\* the pairs as they are on the wire
MapWire(pairs) == EncodeCompact(Len(pairs)) \o EncodeAll(<<Pair(U8, U8)>>, pairs, 1)

MapInit ==
    \E pairs \in SeqsUpTo(WireKeys \X WireValues, MaxPairs) :
        /\ span = MapWire(pairs)
        /\ current_index = 0
        /\ last = Call("construct", U8, 0, Ok(0, 0, 0))
        /\ encoded = <<>>

MapSpec == MapInit /\ [][ReadMap]_vars

(***************************************************************************)
(* Properties.                                                             *)
(***************************************************************************)
\* the first byte the last call had before it
FirstByte == span[last.pre_index + 1]

\* the wire size of the integral shapes of fixed width
Width(T) == IF T.k = "u16" THEN 2 ELSE 1

\* C1: decoding a length-prefixed sequence refuses a declared length N that
\* exceeds the bytes remaining after the prefix: it fails with
\* TOO_MANY_ITEMS, before a container of N elements is allocated and before
\* any element is read.
RefusesLengthBeyondInput ==
    last.op = "vector" =>
        With(decodeCompact(0, span, last.pre_index), LAMBDA size :
            (size.err = "OK" /\ size.val > Len(span) - size.idx) =>
                /\ last.err = "TOO_MANY_ITEMS"
                /\ last.alloc = 0
                /\ current_index = size.idx)

\* the key and the value of the j-th pair after a one-byte length prefix
WireKey(j)   == span[last.pre_index + 2 * j]
WireValue(j) == span[last.pre_index + 2 * j + 1]

\* C2: a decoded map holds, for a key carried by several pairs, the value of
\* the last pair carrying it in wire order.
MapLastWins ==
    (last.op = "map" /\ last.err = "OK") =>
        With(FirstByte \div 4, LAMBDA N :
            /\ DOMAIN last.dst = {WireKey(j) : j \in 1..N}
            /\ \A j \in 1..N :
                  (\A later \in (j + 1)..N : WireKey(later) # WireKey(j))
                      => last.dst[WireKey(j)] = WireValue(j))

\* C3: decoding a sum of n variants reads the index byte i; i >= n fails
\* with WRONG_TYPE_INDEX, reads no payload byte and assigns nothing; i < n
\* decodes exactly the payload of the i-th variant and assigns it.
VariantByIndex ==
    (last.op = "variant" /\ last.pre_index < Len(span)) =>
        IF FirstByte >= Len(last.type.a)
        THEN /\ last.err = "WRONG_TYPE_INDEX"
             /\ current_index = last.pre_index + 1
             /\ last.dst = last.pre_dst
        ELSE With(DecodeElement(last.type.a[FirstByte + 1], Default(last.type.a[FirstByte + 1]),
                                span, last.pre_index + 1), LAMBDA payload :
                /\ last.err = payload.err
                /\ current_index = payload.idx
                /\ IF payload.err = "OK"
                   THEN last.dst = <<FirstByte, payload.val>>
                   ELSE last.dst = last.pre_dst)

VariantByIndexWitness ==
    /\ last.op = "variant"
    /\ last.err = "OK"
    /\ last.pre_index > 0
    /\ last.dst[1] = 1
    /\ current_index = last.pre_index + 3

\* C4: decoding Option<Bool> consumes exactly one byte: 0 is absent, 1 is
\* true, 2 is false, a greater byte fails with UNEXPECTED_VALUE.
OptionalBoolOneByte ==
    (last.op = "optional" /\ last.type.a[1].k = "bool" /\ last.pre_index < Len(span)) =>
        /\ current_index = last.pre_index + 1
        /\ CASE FirstByte = 0 -> last.err = "OK" /\ last.dst = <<>>
             [] FirstByte = 1 -> last.err = "OK" /\ last.dst = <<TRUE>>
             [] FirstByte = 2 -> last.err = "OK" /\ last.dst = <<FALSE>>
             [] OTHER -> last.err = "UNEXPECTED_VALUE" /\ last.dst = last.pre_dst

\* byte 1 followed by a byte that is a bool: the two-byte form of a present
\* optional, of which one byte is consumed
OptionalBoolOneByteWitness ==
    /\ last.op = "optional"
    /\ last.type.a[1].k = "bool"
    /\ last.pre_index + 2 <= Len(span)
    /\ FirstByte = 1
    /\ span[last.pre_index + 2] \in {0, 1}
    /\ last.dst = <<TRUE>>
    /\ current_index = last.pre_index + 1

\* C5: decoding Option<T>, T not bool, reads the discriminant byte: 0 resets
\* the destination and consumes nothing more, 1 decodes exactly one T, any
\* other byte fails with UNEXPECTED_VALUE without decoding a T.
OptionalByDiscriminant ==
    (last.op = "optional" /\ last.type.a[1].k # "bool" /\ last.pre_index < Len(span)) =>
        CASE FirstByte = 0 ->
                /\ last.err = "OK"
                /\ last.dst = <<>>
                /\ current_index = last.pre_index + 1
          [] FirstByte = 1 ->
                IF Len(span) - (last.pre_index + 1) >= Width(last.type.a[1])
                THEN /\ last.err = "OK"
                     /\ last.dst = <<LittleEndian(span, last.pre_index + 1, Width(last.type.a[1]))>>
                     /\ current_index = last.pre_index + 1 + Width(last.type.a[1])
                ELSE last.err = "NOT_ENOUGH_DATA"
          [] OTHER ->
                /\ last.err = "UNEXPECTED_VALUE"
                /\ current_index = last.pre_index + 1
                /\ last.dst = last.pre_dst

\* a destination that held a value is reset by discriminant 0, with bytes
\* left in the span
OptionalByDiscriminantWitness ==
    /\ last.op = "optional"
    /\ last.type = Opt(U16)
    /\ last.pre_dst # <<>>
    /\ last.dst = <<>>
    /\ last.err = "OK"
    /\ current_index < Len(span)

\* C6: the cursor never decreases from one call to the next, stays within
\* the span, and the span is never modified.
CursorForwardOnly ==
    /\ current_index \in 0..Len(span)
    /\ [][/\ current_index' >= current_index
          /\ current_index' \in 0..Len(span')
          /\ span' = span]_vars

\* a call that failed after it had advanced the cursor
CursorForwardOnlyWitness ==
    /\ last.err # "OK"
    /\ last.pre_index > 0
    /\ current_index > last.pre_index

\* C7: nextByte returns the byte at the cursor and advances by one, or fails
\* with NOT_ENOUGH_DATA at the end leaving the cursor; hasMore(n) is true
\* exactly when at least n bytes remain and leaves the cursor.
NextByteHasMoreContract ==
    /\ last.op = "nextByte" =>
          IF last.pre_index < Len(span)
          THEN /\ last.err = "OK"
               /\ last.dst = FirstByte
               /\ current_index = last.pre_index + 1
          ELSE /\ last.err = "NOT_ENOUGH_DATA"
               /\ current_index = last.pre_index
    /\ last.op = "hasMore" =>
          /\ last.dst <=> (Len(span) - last.pre_index >= last.pre_dst)
          /\ current_index = last.pre_index

\* the last byte of a span is returned and the cursor reaches the end
NextByteHasMoreContractWitness ==
    /\ last.op = "nextByte"
    /\ last.err = "OK"
    /\ last.pre_index > 0
    /\ last.dst = 8
    /\ current_index = Len(span)

\* C8: a fixed array of N elements has no length prefix: N elements are
\* decoded in index order; a span that ends before the N-th element is
\* complete fails with NOT_ENOUGH_DATA; on success the bytes consumed are the
\* encodings of the N elements.
ArrayExactlyN ==
    last.op = "array" =>
        /\ Len(last.dst) = last.type.n
        /\ last.err = "OK" =>
              SubSeq(span, last.pre_index + 1, current_index) = Encode(last.type, last.dst)
        /\ last.type.a[1].k \in {"u8", "u16"} =>
              With(Width(last.type.a[1]), LAMBDA w :
                  IF Len(span) - last.pre_index >= last.type.n * w
                  THEN /\ last.err = "OK"
                       /\ current_index = last.pre_index + last.type.n * w
                       /\ \A j \in 1..last.type.n :
                             last.dst[j] = LittleEndian(span, last.pre_index + (j - 1) * w, w)
                  ELSE last.err = "NOT_ENOUGH_DATA")

ArrayExactlyNWitness ==
    /\ last.op = "array"
    /\ last.type = Array(U16, 2)
    /\ last.err = "OK"
    /\ last.dst[1] # last.dst[2]
    /\ current_index = 4

\* C9: decoding the encoding of a value yields the value and leaves the
\* cursor at the end of the encoding.
RoundTrip ==
    last.op = "decode" =>
        /\ last.err = "OK"
        /\ last.dst = encoded[2]
        /\ current_index = Len(Encode(encoded[1], encoded[2]))

\* a map of two keys was decoded, and bytes remain after its encoding
RoundTripWitness ==
    /\ last.op = "decode"
    /\ last.type.k = "map"
    /\ Cardinality(DOMAIN last.dst) = 2
    /\ last.dst = encoded[2]
    /\ current_index < Len(span)

\* C10: a failed decode of a vector, a vector of bool, a map or a static
\* collection leaves the destination as it was, while the cursor stays
\* advanced: past the length prefix when that was read.
FailedCollectionKeepsDestination ==
    (last.op \in {"vector", "vector_bool", "map", "static"} /\ last.err # "OK") =>
        /\ last.dst = last.pre_dst
        /\ current_index >= last.pre_index
        /\ last.op # "static" =>
              With(decodeCompact(0, span, last.pre_index), LAMBDA size :
                  size.err = "OK" => current_index >= size.idx)

\* a map decode that failed after reading a pair and the next key
FailedCollectionKeepsDestinationWitness ==
    /\ last.op = "map"
    /\ last.err = "NOT_ENOUGH_DATA"
    /\ last.dst = last.pre_dst
    /\ DOMAIN last.dst # {}
    /\ current_index = last.pre_index + 4

=============================================================================
